---- MODULE Spec2Model ----
(***************************************************************************)
(* Model of Mesh.export_tri_shapes and its helpers                         *)
(* (io_scene_niftools/modules/nif_export/geometry/mesh/__init__.py).       *)
(*                                                                         *)
(* Floats are integers in units in which NifOp.props.epsilon is Epsilon.   *)
(* Python None and the empty list are both the empty sequence; their       *)
(* truth value is Truthy.  A skin weight raw / norm is the pair            *)
(* [num |-> raw, den |-> norm].                                            *)
(*                                                                         *)
(* The mesh is revealed as the polygon loop reads it: BeginPolygon draws   *)
(* the next polygon, Corner draws the loop data of the next face corner.   *)
(* Source vertices 0 .. NumVerts-1 are tracked one by one.  A mesh may     *)
(* also start with a run of polygons over other vertices, which no later   *)
(* polygon shares: BulkPolygons traverses that run in one step and keeps   *)
(* only how many welded vertices and triangles it produced (bulk_verts,    *)
(* bulk_tris); welded indices of tracked vertices follow them.             *)
(***************************************************************************)
EXTENDS Integers, Sequences, FiniteSets, TLC

\* ------------------------------------------------------------------ bounds
\* tracked source vertices of eval_mesh.vertices
NumVerts == 4
\* polygons of eval_mesh.polygons traversed per material (after the bulk run)
MaxPolys == 3
\* largest raw vertex group weight
MaxWeight == 2
\* bones of skininst.bones
MaxSkinBones == 2

\* ------------------------------------------------------- program constants
\* NifOp.props.epsilon, the unit of every attribute value
Epsilon == 1
\* largest welded vertex index accepted by the corner loop
MaxVertexIndex == 65535
\* largest triangle count accepted after the polygon loop
MaxTriangles == 65535
\* the first version with skin partitions, 0x04020100
SkinPartitionVersion == 67240192

Verts == 0 .. (NumVerts - 1)
None == << >>

\* Python truth value of None, a list or a mathutils Vector
Truthy(x) == Len(x) > 0

Abs(x) == IF x < 0 THEN -x ELSE x

MaxOf(S) == CHOOSE m \in S : \A y \in S : y <= m

\* ------------------------------------------------------------------ inputs
Games == {"MORROWIND", "OBLIVION", "SKYRIM"}

\* b_obj.scale
Scales == {<<1, 1, 1>>, <<-1, -1, -1>>, <<1, 1, -2>>}

\* body part of a polygon in polygon_parts: -1 is "not assigned"
BodyParts == {-1, 30, 32}

\* vertex groups of b_obj and bones of the armature
GroupNames == {"Bone1", "Bone2", "Other"}
BoneNames == {"Bone1", "Bone2", "Bone3"}

\* the groups of tracked vertex v (group name -> raw weight, for the groups
\* it is in): vertex 0 is in any groups, with any weight in those of a bone;
\* vertex 1 is in Bone1 or in no group; the others are in Bone1
VertexGroupsOf(v, names) ==
    IF v = 0
    THEN {g \in UNION {[gs -> 0 .. MaxWeight] : gs \in SUBSET names} :
            \A n \in DOMAIN g : n \notin BoneNames => g[n] = 1}
    ELSE IF v = 1 /\ "Bone1" \in names THEN {[g \in {"Bone1"} |-> 1], << >>}
    ELSE IF "Bone1" \in names THEN {[g \in {"Bone1"} |-> 1]}
    ELSE {<< >>}

\* the loop data of a face corner of source vertex v (uv per uv layer, loop
\* normal, colour); only vertex 0 has corners that differ: by one or two
\* epsilon in u, or by two epsilon in u of the second layer, in a normal
\* component or in a colour component
LoopData(v) ==
    LET base == [uv |-> << <<0, 0>>, <<0, 0>> >>, normal |-> <<0, 0, 1>>,
                 color |-> <<1, 1, 1, 1>>]
    IN  IF v = 0
        THEN {base,
              [base EXCEPT !.uv[1] = <<1, 0>>],
              [base EXCEPT !.uv[1] = <<2, 0>>],
              [base EXCEPT !.uv[2] = <<2, 0>>],
              [base EXCEPT !.normal = <<0, 2, 1>>],
              [base EXCEPT !.color = <<1, 1, 1, 3>>]}
        ELSE {base}

\* poly.normal of a flat polygon
PolyNormals == {<<0, 0, 1>>, <<0, 2, 1>>}

\* poly.vertices: a degenerate polygon, a triangle and a quad around vertex 0
\* (a mesh has them all unless it is Triangles)
PolyVertices == {<<0, 1>>, <<0, 1, 2>>, <<0, 1, 2, 3>>}

\* the run of polygons over untracked vertices a mesh may start with
BulkVerts == MaxVertexIndex - 2
BulkTris == MaxTriangles - 1

VARIABLES
    b_obj,          \* scale, parent, vertex_groups of the exported object
    eval_mesh,      \* materials, uv_layers, vertex_colors, face maps, vertex groups
    game,           \* bpy.context.scene.niftools_scene.game
    n_parent,       \* kind of the parent block: "NiNode" or "None"
    nif_nodes,      \* names of the NiNode blocks exported before the mesh
    trishape_name,  \* the parameter trishape_name: "None" or a name
    version,        \* NifData.data.version
    skin_partition, \* NifOp.props.skin_partition
    pc,             \* position in export_tri_shapes
    error,          \* the NifError raised, "none" while none is
    b_mat_index,    \* index of the material being exported
    block_store,    \* blocks created by block_store.create_block, in order
    children,       \* n_geom blocks added by n_parent.add_child (material indices)
    geoms,          \* per material index: what was set on its n_geom
    vertquad_list, vertex_map, vertex_positions, normals, vertex_colors, uv_coords,
    tangents, bitangent_signs,
    triangles, bodypartfacemap, polygons_without_bodypart,
    bulk_verts,     \* welded vertices made by the bulk run, ahead of vertquad_list
    bulk_tris,      \* triangles (and body part tags) made by the bulk run
    n_polys,        \* polygons traversed by the polygon loop, the bulk run aside
    poly,           \* the polygon being traversed
    f_index,        \* welded indices of its corners, -1 where not yet found
    corner_log,     \* the face corners traversed for this material, as
                    \* <<vertex_index, vertquad, f_index[i], i, poly.index,
                    \*   part_index>>
    vert_list, vert_norm, unweighted_vertices,
    bones_done,     \* bones the bone loop has been through
    skin_bones,     \* bone name -> vert_weights passed to n_geom.add_bone
    selected,       \* vertices of b_obj.data with select = True
    pose_in,        \* what get_triangulated_mesh and update_bind_position meet
    pose_pc,        \* position in get_triangulated_mesh / update_bind_position
    pose_position,  \* b_armature_obj.data.pose_position
    old_position,   \* the local old_position
    entry_position, \* pose_position when the function was entered
    bone_i,         \* bones of skininst.bones the bone loop has been through
    sampled         \* pose_position at each use of pose_bone.matrix

inputs == <<b_obj, eval_mesh, game, n_parent, nif_nodes, trishape_name, version,
            skin_partition>>
blocks == <<block_store, children, geoms>>
lists == <<vertquad_list, vertex_map, vertex_positions, normals, vertex_colors,
           uv_coords, tangents, bitangent_signs>>
faces == <<triangles, bodypartfacemap, polygons_without_bodypart>>
bulk == <<bulk_verts, bulk_tris>>
skin == <<vert_list, vert_norm, unweighted_vertices, bones_done, skin_bones,
         selected>>
pose == <<pose_in, pose_pc, pose_position, old_position, entry_position,
          bone_i, sampled>>
export == <<inputs, pc, error, b_mat_index, blocks, lists, faces, bulk, n_polys,
            poly, f_index, corner_log, skin>>
vars == <<export, pose>>

\* ------------------------------------------------------------ derived data
\* mesh_materials: no material is one faked material None
NumMaterials == IF eval_mesh.materials = 0 THEN 1 ELSE eval_mesh.materials

\* b_mat is not None: the mesh has material slots and slot b_mat_index is
\* not an empty one
HasMaterial ==
    eval_mesh.materials > 0 /\ b_mat_index \notin eval_mesh.empty_slots

mesh_hasnormals ==
    HasMaterial /\ ~(game = "SKYRIM" /\ eval_mesh.model_space_normals)

\* lines 212-215; no game of Games is in USED_EXTRA_SHADER_TEXTURES
use_tangents ==
    /\ eval_mesh.uv_layers > 0
    /\ mesh_hasnormals
    /\ game \in {"OBLIVION", "FALLOUT_3", "SKYRIM"}

\* polygon_parts is a non-empty list: get_polygon_parts (lines 562-579) found
\* a valid face map and the mesh has a polygon (one entry per face)
HasPolygonParts == eval_mesh.face_maps /\ eval_mesh.polygons

\* len(vertquad_list), len(triangles), len(bodypartfacemap)
NumWelded == bulk_verts + Len(vertquad_list)
NumTriangles == bulk_tris + Len(triangles)
NumTags == bulk_tris + Len(bodypartfacemap)

\* len(tangents), len(bitangents)
NumTangents == (IF use_tangents THEN bulk_verts ELSE 0) + Len(tangents)
NumBitangents == (IF use_tangents THEN bulk_verts ELSE 0) + Len(bitangent_signs)

\* vertquad_list[j] of a tracked vertex
VertQuad(j) == vertquad_list[j - bulk_verts + 1]

\* ------------------------------------------------- is_new_face_corner_data
\* True when vertquad differs from v_quad_old by more than epsilon in a uv,
\* normal or colour component that v_quad_old has.  A quad is
\* <<fv, fuv, fn, f_col>>.
is_new_face_corner_data(vertquad, v_quad_old) ==
    \/ /\ Truthy(v_quad_old[2])
       /\ \E i \in 1 .. 2 :
            MaxOf({Abs(vertquad[2][uv_index][i] - v_quad_old[2][uv_index][i]) :
                     uv_index \in 1 .. Len(v_quad_old[2])}) > Epsilon
    \/ /\ Truthy(v_quad_old[3])
       /\ \E i \in 1 .. 3 : Abs(vertquad[3][i] - v_quad_old[3][i]) > Epsilon
    \/ /\ Truthy(v_quad_old[4])
       /\ \E i \in 1 .. 4 : Abs(vertquad[4][i] - v_quad_old[4][i]) > Epsilon

\* a duplicate check that takes the last matching candidate, not the first
DuplicateIndexLastMatch(vertquad, vertex_index) ==
    LET cands == vertex_map[vertex_index]
        same == {k \in 1 .. Len(cands) :
                   ~is_new_face_corner_data(vertquad, VertQuad(cands[k]))}
    IN  IF same = {} THEN NumWelded
        ELSE cands[CHOOSE k \in same : \A l \in same : k >= l]

\* a duplicate check that never finds a duplicate
DuplicateIndexNone(vertquad, vertex_index) == NumWelded

\* a duplicate check that compares with the newest candidate alone
DuplicateIndexNewestOnly(vertquad, vertex_index) ==
    LET cands == vertex_map[vertex_index]
    IN  IF cands # << >>
           /\ ~is_new_face_corner_data(vertquad, VertQuad(cands[Len(cands)]))
        THEN cands[Len(cands)]
        ELSE NumWelded

\* the index the duplicate check leaves in f_index[i]: that of the first
\* candidate of vertex_map[vertex_index] the quad is not new against, else
\* len(vertquad_list)
DuplicateIndex(vertquad, vertex_index) ==
    LET cands == vertex_map[vertex_index]
        same == {k \in 1 .. Len(cands) :
                   ~is_new_face_corner_data(vertquad, VertQuad(cands[k]))}
    IN  IF same = {} THEN NumWelded
        ELSE cands[CHOOSE k \in same : \A l \in same : k <= l]

\* a corner loop that adds the tangent of every corner
AddsTangentAlways(index) == use_tangents

\* a corner adds its tangent and bitangent sign when it is a new welded
\* vertex and tangents are in use (lines 279, 290-292)
AddsTangent(index) == use_tangents /\ index = NumWelded

\* eval_mesh.loops[loop_index].tangent and .bitangent_sign
LoopTangent == <<1, 0, 0>>
LoopBitangentSign == 1

\* the corner loop refuses an index above the largest 16 bit index
TooManyVertices(index) == index > MaxVertexIndex

\* a triangle check that already refuses the largest triangle count
TooManyPolygonsAtLimit(count) == count >= MaxTriangles

\* the polygon loop's result is refused above the largest triangle count
TooManyPolygons(count) == count > MaxTriangles

\* a winding test that keeps the winding of a zero scale sum
KeepsWindingAtZero(scale) == (scale[1] + scale[2] + scale[3]) >= 0

\* the winding test on b_obj.scale
KeepsWinding(scale) == (scale[1] + scale[2] + scale[3]) > 0

\* the triangles of a polygon with welded corner indices f
FanTriangles(f, scale) ==
    [i \in 1 .. (Len(f) - 2) |->
        IF KeepsWinding(scale)
        THEN <<f[1], f[1 + i], f[2 + i]>>
        ELSE <<f[1], f[2 + i], f[1 + i]>>]

\* the body part tags and the polygons without body part one polygon adds,
\* one per triangle
UsesBodyParts == game \in {"FALLOUT_3", "SKYRIM"} /\ HasPolygonParts

\* one tag per polygon
FanTagsOnce(p, n) ==
    IF ~UsesBodyParts THEN <<0>>
    ELSE IF p.part_index >= 0 THEN <<p.part_index>>
    ELSE << >>

FanTags(p, n) ==
    IF ~UsesBodyParts THEN [i \in 1 .. n |-> 0]
    ELSE IF p.part_index >= 0 THEN [i \in 1 .. n |-> p.part_index]
    ELSE << >>

\* a collection that stops at the first polygon without body part
FanWithoutFirst(p, n) ==
    IF UsesBodyParts /\ p.part_index < 0 /\ polygons_without_bodypart = << >>
    THEN <<p.index>>
    ELSE << >>

FanWithout(p, n) ==
    IF UsesBodyParts /\ p.part_index < 0 THEN [i \in 1 .. n |-> p.index]
    ELSE << >>

\* ------------------------------------------------------------------- Init
NoPoly == [vertices |-> << >>, index |-> -1, material_index |-> 0,
           use_smooth |-> TRUE, normal |-> <<0, 0, 1>>, part_index |-> -1]

NoGroups == [v \in Verts |-> << >>]

MeshOf(mats, uvs, vcol, flat, fmaps, msn, blk, grps) ==
    [materials |-> mats, uv_layers |-> uvs, vertex_colors |-> vcol,
     flat_shaded |-> flat, face_maps |-> fmaps, model_space_normals |-> msn,
     bulk |-> blk, groups |-> grps, shapes |-> PolyVertices,
     empty_slots |-> {}, polygons |-> TRUE]

\* the mesh when the material slots of the indices slots are empty (None)
WithEmptySlots(mesh, slots) == [mesh EXCEPT !.empty_slots = slots]

\* the mesh without any polygon
WithoutPolygons(mesh) == [mesh EXCEPT !.polygons = FALSE]

\* the mesh when all its polygons are triangles
Triangles(mesh) == [mesh EXCEPT !.shapes = {<<0, 1, 2>>}]

ObjectOf(scl, par, vgroups) ==
    [scale |-> scl, parent |-> par, vertex_groups |-> vgroups,
     skeleton_root |-> ""]

\* the vertex group assignments of a mesh of an object with the groups names
GroupInputs(names) ==
    {[v \in Verts |-> IF v = 0 THEN g0 ELSE IF v = 1 THEN g1
                      ELSE CHOOSE g \in VertexGroupsOf(v, names) : TRUE] :
        g0 \in VertexGroupsOf(0, names), g1 \in VertexGroupsOf(1, names)}

Unskinned == ObjectOf(<<1, 1, 1>>, "NONE", {})

\* the armature and its bones, exported before the mesh
ArmatureName == "Armature"
AllNodes == {ArmatureName} \cup BoneNames

\* every vertex in Bone1 alone
WeightedGroups == [v \in Verts |-> [g \in {"Bone1"} |-> 1]]

\* the exports modelled, as <<eval_mesh, b_obj, game, n_parent, nif_nodes>>
\* a smooth mesh with uv, normal and colour on every corner, and one with
\* two uv layers alone
AttributeInputs ==
    {<<Triangles(MeshOf(in[1], in[2], in[3], FALSE, FALSE, FALSE, FALSE, NoGroups)),
       Unskinned, "MORROWIND", "NiNode", {}>> :
        in \in {<<1, 1, TRUE>>, <<0, 2, FALSE>>}}

\* each scale, without material and with one (flat normals), with and
\* without parent block
ScaleInputs ==
    {<<MeshOf(mats, 0, FALSE, TRUE, FALSE, FALSE, FALSE, NoGroups),
       ObjectOf(scl, "NONE", {}), "MORROWIND", par, {}>> :
        mats \in 0 .. 1, scl \in Scales, par \in {"NiNode", "None"}}

\* an object parented to an armature, without attributes: every assignment
\* of its vertices to its vertex groups
SkinInputs ==
    {<<Triangles(MeshOf(0, 0, FALSE, FALSE, FALSE, FALSE, FALSE, g)),
       ObjectOf(<<1, 1, 1>>, "ARMATURE", GroupNames), "MORROWIND", "NiNode",
       AllNodes>> : g \in GroupInputs(GroupNames)}

\* no vertex group of a bone; a missing bone block; a missing root block;
\* two materials; a skeleton_root property naming an exported node and one
\* naming none; a bone whose one vertex is the last vertex, in no triangle
ArmatureInputs ==
    UNION {{<<Triangles(MeshOf(in[1], 0, FALSE, FALSE, FALSE, FALSE, FALSE, g)),
              ObjectOf(<<1, 1, 1>>, "ARMATURE", in[2]), "MORROWIND", "NiNode",
              in[3]>> : g \in in[4]} :
        in \in {<<0, {"Other"}, AllNodes, GroupInputs({"Other"})>>,
                <<0, {"Bone1", "Other"}, AllNodes \ {"Bone1"},
                  GroupInputs({"Bone1", "Other"})>>,
                <<1, {"Bone1"}, BoneNames, {WeightedGroups}>>}}
      \cup
    {<<Triangles(MeshOf(2, 0, FALSE, FALSE, FALSE, FALSE, FALSE, WeightedGroups)),
       ObjectOf(<<1, 1, 1>>, "ARMATURE", {"Bone1"}), "MORROWIND", "NiNode",
       AllNodes>>}
      \cup
    {<<Triangles(MeshOf(0, 0, FALSE, FALSE, FALSE, FALSE, FALSE, WeightedGroups)),
       [ObjectOf(<<1, 1, 1>>, "ARMATURE", {"Bone1"}) EXCEPT
           !.skeleton_root = in[1]], "MORROWIND", "NiNode", in[2]>> :
        in \in {<<"Bone2", BoneNames>>, <<"Root", AllNodes>>}}
      \cup
    {<<Triangles(MeshOf(0, 0, FALSE, FALSE, FALSE, FALSE, FALSE,
                        [WeightedGroups EXCEPT
                            ![NumVerts - 1] = [g \in {"Bone2"} |-> 1]])),
       ObjectOf(<<1, 1, 1>>, "ARMATURE", {"Bone1", "Bone2"}), "MORROWIND",
       "NiNode", AllNodes>>}

\* vertex colours on a skinned mesh: welded copies of a vertex weighted for
\* two bones
ColourSkinInputs ==
    {<<Triangles(MeshOf(0, 0, TRUE, FALSE, FALSE, FALSE, FALSE, g)),
       ObjectOf(<<1, 1, 1>>, "ARMATURE", {"Bone1", "Bone2"}), "MORROWIND",
       "NiNode", AllNodes>> :
        g \in {h \in GroupInputs({"Bone1", "Bone2"}) :
                 DOMAIN h[0] = {"Bone1", "Bone2"} /\ h[1] # << >>}}

\* body part face maps, with and without model space normals (polygons of
\* every shape without normals, triangles with them); two uv layers
BodyPartInputs ==
    {<<MeshOf(1, in[1], FALSE, TRUE, TRUE, TRUE, FALSE, WeightedGroups),
       ObjectOf(<<1, 1, 1>>, "ARMATURE", {"Bone1"}), in[2], "NiNode", AllNodes>> :
        in \in {<<0, "SKYRIM">>}}
      \cup
    {<<Triangles(MeshOf(1, in[1], FALSE, TRUE, TRUE, FALSE, FALSE, WeightedGroups)),
       ObjectOf(<<1, 1, 1>>, "ARMATURE", {"Bone1"}), in[2], "NiNode", AllNodes>> :
        in \in {<<0, "SKYRIM">>, <<0, "OBLIVION">>, <<2, "SKYRIM">>}}

\* a mesh that starts with the bulk run
BulkInputs ==
    {<<MeshOf(in[3], 0, FALSE, FALSE, in[1], FALSE, TRUE, NoGroups), Unskinned,
       in[2], "NiNode", {}>> :
        in \in {<<FALSE, "MORROWIND", 0>>, <<TRUE, "SKYRIM", 0>>,
                <<FALSE, "MORROWIND", 2>>}}

\* one uv layer and normals in a game with tangent space, on one material
\* and on two
TangentInputs ==
    {<<Triangles(MeshOf(in[1], 1, FALSE, FALSE, FALSE, FALSE, FALSE, NoGroups)),
       Unskinned, in[2], "NiNode", {}>> :
        in \in {<<1, "OBLIVION">>, <<2, "SKYRIM">>}}

\* two material slots, the second one a material or empty; no normals
MaterialInputs ==
    {<<WithEmptySlots(MeshOf(2, 0, FALSE, FALSE, FALSE, TRUE, FALSE, NoGroups),
                      slots),
       Unskinned, "SKYRIM", "NiNode", {}>> : slots \in {{}, {1}}}

\* meshes without polygons: with valid face maps on a skinned object, and
\* with two materials
EmptyInputs ==
    {<<WithoutPolygons(MeshOf(1, 0, FALSE, TRUE, TRUE, FALSE, FALSE,
                              WeightedGroups)),
       ObjectOf(<<1, 1, 1>>, "ARMATURE", {"Bone1"}), g, "NiNode", AllNodes>> :
        g \in {"SKYRIM", "OBLIVION"}}
      \cup
    {<<WithoutPolygons(MeshOf(2, 0, FALSE, FALSE, FALSE, FALSE, FALSE, NoGroups)),
       Unskinned, "MORROWIND", "NiNode", {}>>}

Inputs ==
    AttributeInputs \cup ScaleInputs \cup SkinInputs \cup ArmatureInputs
        \cup ColourSkinInputs \cup BodyPartInputs \cup BulkInputs
        \cup TangentInputs \cup MaterialInputs \cup EmptyInputs

\* NifData.data.version: 0x04020002 and 0x04020100, the versions on either
\* side of the first one with skin partitions, and 0x14000005
Versions == {67239938, 67240192, 335544325}

\* the trishape_name an export is entered with: None, the default, or a
\* name (a name matters to an object without parent block alone)
TrishapeNames(parent) ==
    IF parent = "None" THEN {"None", "Shape"} ELSE {"None"}

\* <<version, skin_partition>> of an export: with and without skin
\* partitions for an object with an armature parent, in either of the
\* older versions for MORROWIND and in the newest one for the other games;
\* the newest version with skin partitions for an object without armature
\* parent
PartitionOptions(obj, g) ==
    IF obj.parent # "ARMATURE" THEN {MaxOf(Versions)} \X {TRUE}
    ELSE IF g = "MORROWIND" THEN (Versions \ {MaxOf(Versions)}) \X BOOLEAN
    ELSE {MaxOf(Versions)} \X BOOLEAN

\* export_tri_shapes is entered with one of the exports S
ExportInit(S) ==
    /\ \E inp \in S :
         /\ eval_mesh = inp[1]
         /\ b_obj = inp[2]
         /\ game = inp[3]
         /\ n_parent = inp[4]
         /\ nif_nodes = inp[5]
         /\ trishape_name \in TrishapeNames(inp[4])
         /\ \E o \in PartitionOptions(inp[2], inp[3]) :
               version = o[1] /\ skin_partition = o[2]
    /\ pc = "material"
    /\ error = "none"
    /\ b_mat_index = 0
    /\ block_store = << >>
    /\ children = << >>
    /\ geoms = << >>
    /\ vertquad_list = << >>
    /\ vertex_map = [v \in Verts |-> None]
    /\ vertex_positions = << >>
    /\ normals = << >>
    /\ vertex_colors = << >>
    /\ uv_coords = << >>
    /\ tangents = << >>
    /\ bitangent_signs = << >>
    /\ triangles = << >>
    /\ bodypartfacemap = << >>
    /\ polygons_without_bodypart = << >>
    /\ bulk_verts = 0
    /\ bulk_tris = 0
    /\ n_polys = 0
    /\ poly = NoPoly
    /\ f_index = << >>
    /\ corner_log = << >>
    /\ vert_list = << >>
    /\ vert_norm = << >>
    /\ unweighted_vertices = << >>
    /\ bones_done = {}
    /\ skin_bones = << >>
    /\ selected = {}

\* what the two functions that set pose_position meet: whether
\* b_obj.find_armature() finds an armature, whether evaluating the mesh
\* fails, whether n_geom is a skin, whether the geometry transform has no
\* inverse, and per bone of skininst.bones what lines 544-549 meet: a bone
\* without block in block_store.block_to_obj (KeyError, line 544), a bone
\* without pose bone of its name (KeyError, line 545), a bind transform
\* without inverse (line 549), or none of these
BoneOutcomes == {"ok", "no_block", "no_pose_bone", "singular"}
BoneLists == UNION {[1 .. n -> BoneOutcomes] : n \in 0 .. MaxSkinBones}
PoseInputs ==
    [armature : BOOLEAN, eval_fails : BOOLEAN, is_skin : BOOLEAN,
     geom_singular : BOOLEAN, bones : BoneLists]
PosePositions == {"POSE", "REST"}

\* the pose of the armature is not followed
PoseIdle ==
    /\ pose_in = [armature |-> FALSE, eval_fails |-> FALSE, is_skin |-> FALSE,
                  geom_singular |-> FALSE, bones |-> << >>]
    /\ pose_pc = "idle"
    /\ pose_position = "POSE"
    /\ old_position = "POSE"
    /\ entry_position = "POSE"
    /\ bone_i = 0
    /\ sampled = << >>

Init == ExportInit(Inputs) /\ PoseIdle

Raise(e) ==
    /\ pc' = "raised"
    /\ error' = e

\* an exception leaves get_triangulated_mesh or update_bind_position
PoseRaise == pose_pc' = "raised"

\* ---------------------------------------------------------------- actions
\* lines 116-222: the head of one iteration of the material loop
NewGeom == [has_data |-> FALSE, num_vertices |-> 0, num_triangles |-> 0,
            has_tangents |-> FALSE,
            has_skin |-> FALSE, bones |-> {}, bind_position |-> FALSE,
            partitioned |-> FALSE, finished |-> FALSE]

\* a material group that goes on with the triangles of the groups before it
StaleTriangles == triangles

\* line 201: triangles = []
FreshTriangles == << >>

\* lines 136-137: n_parent.name is read of a parent that is None when no
\* trishape_name is given
ReadsNameOfNone == trishape_name = "None" /\ n_parent = "None"

BeginMaterial ==
    /\ pc = "material"
    /\ ~ReadsNameOfNone
    /\ block_store' = block_store \o <<"NiTriShape", "NiTriShapeData">>
    /\ children' = IF n_parent # "None" THEN Append(children, b_mat_index)
                   ELSE children
    /\ geoms' = Append(geoms, NewGeom)
    /\ vertquad_list' = << >>
    /\ vertex_map' = [v \in Verts |-> None]
    /\ vertex_positions' = << >>
    /\ normals' = << >>
    /\ vertex_colors' = << >>
    /\ uv_coords' = << >>
    /\ tangents' = IF use_tangents THEN << >> ELSE tangents
    /\ bitangent_signs' = IF use_tangents THEN << >> ELSE bitangent_signs
    /\ triangles' = FreshTriangles
    /\ bodypartfacemap' = << >>
    /\ polygons_without_bodypart' = << >>
    /\ bulk_verts' = 0
    /\ bulk_tris' = 0
    /\ n_polys' = 0
    /\ corner_log' = << >>
    /\ poly' = NoPoly
    /\ f_index' = << >>
    /\ IF game \in {"FALLOUT_3", "SKYRIM"} /\ eval_mesh.uv_layers > 1
       THEN Raise("MultipleUVLayers")
       ELSE /\ pc' = IF eval_mesh.bulk THEN "bulk" ELSE "polygons"
            /\ UNCHANGED error
    /\ UNCHANGED <<pose, inputs, b_mat_index, skin>>

\* lines 116-137 of an object without parent block and without
\* trishape_name: the blocks are created, then n_parent.name raises a
\* Python AttributeError
BeginMaterialNoParent ==
    /\ pc = "material"
    /\ ReadsNameOfNone
    /\ block_store' = block_store \o <<"NiTriShape", "NiTriShapeData">>
    /\ geoms' = Append(geoms, NewGeom)
    /\ Raise("PY_AttributeError")
    /\ UNCHANGED <<pose, inputs, b_mat_index, children, lists, faces, bulk,
                   n_polys, poly, f_index, corner_log, skin>>

\* lines 224-305 over the run of polygons of untracked vertices the mesh
\* starts with: polygons of material 0, each with a body part, whose
\* corners make BulkVerts welded vertices and BulkTris triangles
BulkPolygons ==
    /\ pc = "bulk"
    /\ IF HasMaterial /\ b_mat_index # 0
       THEN /\ pc' = "polygons"
            /\ UNCHANGED <<error, bulk>>
       ELSE IF TooManyVertices(BulkVerts - 1)
       THEN /\ Raise("TooManyVertices")
            /\ UNCHANGED bulk
       ELSE /\ bulk_verts' = BulkVerts
            /\ bulk_tris' = BulkTris
            /\ pc' = "polygons"
            /\ UNCHANGED error
    /\ UNCHANGED <<pose, inputs, b_mat_index, blocks, lists, faces, n_polys, poly,
                   f_index, corner_log, skin>>

\* lines 224-237: the next polygon of eval_mesh.polygons
BeginPolygon ==
    /\ pc = "polygons"
    /\ eval_mesh.polygons
    /\ n_polys < MaxPolys
    /\ \E vs \in eval_mesh.shapes, m \in 0 .. (NumMaterials - 1),
          smooth \in {~eval_mesh.flat_shaded},
          nrm \in (IF eval_mesh.flat_shaded /\ mesh_hasnormals THEN PolyNormals
                   ELSE {<<0, 0, 1>>}),
          part \in (IF HasPolygonParts THEN BodyParts ELSE {-1}) :
         /\ IF (HasMaterial /\ m # b_mat_index) \/ Len(vs) < 3
            THEN /\ pc' = "polygons"
                 /\ UNCHANGED <<poly, f_index>>
            ELSE /\ pc' = "corner"
                 /\ poly' = [vertices |-> vs, index |-> n_polys,
                             material_index |-> m, use_smooth |-> smooth,
                             normal |-> nrm, part_index |-> part]
                 /\ f_index' = [i \in 1 .. Len(vs) |-> -1]
    /\ n_polys' = n_polys + 1
    /\ UNCHANGED <<pose, inputs, error, b_mat_index, blocks, lists, faces, bulk,
                   corner_log, skin>>

\* a vertex map that keeps the newest welded vertex of a source vertex alone
MappedAlone(mapped, index) == <<index>>

\* lines 280-282: vertex_map[vertex_index] with one more welded vertex
Mapped(mapped, index) == Append(mapped, index)

\* the corner the corner loop is at
CornerAt == CHOOSE i \in 1 .. Len(f_index) :
                f_index[i] = -1 /\ \A k \in 1 .. (i - 1) : f_index[k] # -1

\* lines 238-297: one face corner
Corner ==
    /\ pc = "corner"
    /\ LET i == CornerAt
           vertex_index == poly.vertices[i]
       IN \E loop \in LoopData(vertex_index) :
            LET fn == IF mesh_hasnormals
                      THEN (IF poly.use_smooth THEN loop.normal ELSE poly.normal)
                      ELSE None
                fuv == [l \in 1 .. eval_mesh.uv_layers |-> loop.uv[l]]
                f_col == IF eval_mesh.vertex_colors THEN loop.color ELSE None
                vertquad == <<vertex_index, fuv, fn, f_col>>
                index == DuplicateIndex(vertquad, vertex_index)
            IN  /\ f_index' = [f_index EXCEPT ![i] = index]
                /\ corner_log' = Append(corner_log,
                      <<vertex_index, vertquad, index, i, poly.index,
                        poly.part_index>>)
                /\ IF TooManyVertices(index)
                   THEN /\ Raise("TooManyVertices")
                        /\ UNCHANGED lists
                   ELSE /\ IF index = NumWelded
                           THEN /\ vertex_map' = [vertex_map EXCEPT
                                      ![vertex_index] = Mapped(@, NumWelded)]
                                /\ vertquad_list' = Append(vertquad_list, vertquad)
                                /\ vertex_positions' =
                                      Append(vertex_positions, vertquad[1])
                                /\ normals' = IF mesh_hasnormals
                                              THEN Append(normals, vertquad[3])
                                              ELSE normals
                                /\ vertex_colors' =
                                      IF eval_mesh.vertex_colors
                                      THEN Append(vertex_colors, vertquad[4])
                                      ELSE vertex_colors
                                /\ uv_coords' = IF eval_mesh.uv_layers > 0
                                                THEN Append(uv_coords, vertquad[2])
                                                ELSE uv_coords
                           ELSE UNCHANGED <<vertquad_list, vertex_map,
                                            vertex_positions, normals,
                                            vertex_colors, uv_coords>>
                        /\ IF AddsTangent(index)
                           THEN /\ tangents' = Append(tangents, LoopTangent)
                                /\ bitangent_signs' =
                                      Append(bitangent_signs, <<LoopBitangentSign>>)
                           ELSE UNCHANGED <<tangents, bitangent_signs>>
                        /\ pc' = IF i = Len(f_index) THEN "fan" ELSE "corner"
                        /\ UNCHANGED error
    /\ UNCHANGED <<pose, inputs, b_mat_index, blocks, faces, bulk, n_polys, poly, skin>>

\* lines 299-318: the polygon's triangles and their body part
FanPolygon ==
    /\ pc = "fan"
    /\ LET n == Len(f_index) - 2
       IN  /\ triangles' = triangles \o FanTriangles(f_index, b_obj.scale)
           /\ bodypartfacemap' = bodypartfacemap \o FanTags(poly, n)
           /\ polygons_without_bodypart' =
                 polygons_without_bodypart \o FanWithout(poly, n)
    /\ pc' = "polygons"
    /\ UNCHANGED <<pose, inputs, error, b_mat_index, blocks, lists, bulk, n_polys, poly,
                   f_index, corner_log, skin>>

\* the polygon loop has been through every polygon of the mesh: through
\* one at least, the bulk run counted, unless the mesh has none
AllPolygonsDone == eval_mesh.polygons => (eval_mesh.bulk \/ n_polys > 0)

\* lines 320-327: after the last polygon
EndPolygons ==
    /\ pc = "polygons"
    /\ AllPolygonsDone
    /\ IF polygons_without_bodypart # << >>
       THEN Raise("UnassignedBodyPart")
       ELSE IF TooManyPolygons(NumTriangles)
       THEN Raise("TooManyPolygons")
       ELSE /\ UNCHANGED error
            /\ pc' = IF Len(vertex_positions) + bulk_verts = 0
                     THEN "next" ELSE "geometry"
    /\ UNCHANGED <<pose, inputs, b_mat_index, blocks, lists, faces, bulk, n_polys, poly,
                   f_index, corner_log, skin>>

\* vertgroups & bone_names
boneinfluences == b_obj.vertex_groups \cap BoneNames

HasSkin == b_obj.parent = "ARMATURE" /\ boneinfluences # {}

\* lines 329-347: set_geom_data and set_triangles
\* add_defined_tangents (lines 770-773) refuses tangents and bitangents that
\* are not one per vertex
TangentCountMismatch(num_vertices) ==
    ~(NumTangents = NumBitangents /\ NumBitangents = num_vertices)

SetGeometry ==
    /\ pc = "geometry"
    /\ IF use_tangents /\ TangentCountMismatch(NumWelded)
       THEN /\ geoms' = [geoms EXCEPT ![b_mat_index + 1] =
                            [@ EXCEPT !.has_data = TRUE,
                                      !.num_vertices = NumWelded,
                                      !.num_triangles = NumTriangles]]
            /\ Raise("TangentCountMismatch")
       ELSE /\ geoms' = [geoms EXCEPT ![b_mat_index + 1] =
                            [@ EXCEPT !.has_data = TRUE,
                                      !.num_vertices = NumWelded,
                                      !.num_triangles = NumTriangles,
                                      !.has_tangents = use_tangents]]
            /\ pc' = IF HasSkin THEN "skin" ELSE "finish"
            /\ UNCHANGED error
    /\ UNCHANGED <<pose, inputs, b_mat_index, block_store, children, lists,
                   faces, bulk, n_polys, poly, f_index, corner_log, skin>>

\* lines 581-609: create_skin_inst_data, and line 360
n_root_name ==
    IF b_obj.skeleton_root # "" THEN b_obj.skeleton_root ELSE ArmatureName

\* a skeleton root search that takes any exported node when there is one
RootFoundOrSubstituted == nif_nodes # {}

\* the search for a NiNode block named n_root_name (lines 594-599)
RootFound == n_root_name \in nif_nodes

CreateSkinInstance ==
    /\ pc = "skin"
    /\ IF RootFound
       THEN /\ block_store' = block_store \o
                   <<IF UsesBodyParts THEN "BSDismemberSkinInstance"
                     ELSE "NiSkinInstance", "NiSkinData">>
            /\ geoms' = [geoms EXCEPT ![b_mat_index + 1] =
                            [@ EXCEPT !.has_skin = TRUE]]
            /\ pc' = "weights"
            /\ UNCHANGED error
       ELSE /\ block_store' = Append(block_store,
                   IF UsesBodyParts THEN "BSDismemberSkinInstance"
                   ELSE "NiSkinInstance")
            /\ Raise("SkeletonRootNotFound")
            /\ UNCHANGED geoms
    /\ UNCHANGED <<pose, inputs, b_mat_index, children, lists, faces, bulk, n_polys,
                   poly, f_index, corner_log, skin>>

\* the elements of a set of integers in increasing order
Ascending(S) ==
    [k \in 1 .. Cardinality(S) |->
        CHOOSE x \in S : Cardinality({y \in S : y < x}) = k - 1]

\* s repeated n times
RECURSIVE Repeat(_, _)
Repeat(s, n) == IF n = 0 THEN << >> ELSE s \o Repeat(s, n - 1)

RECURSIVE SumWeights(_, _)
SumWeights(g, names) ==
    IF names = {} THEN 0
    ELSE LET b == CHOOSE x \in names : TRUE
         IN  g[b] + SumWeights(g, names \ {b})

\* len(b_vert.groups) == 0
HasNoGroups(b_vert) == DOMAIN eval_mesh.groups[b_vert] = {}

\* b_list_weight of one bone group: (vertex, weight) of its vertices
BoneWeightList(bone_group) ==
    LET members == {v \in Verts : bone_group \in DOMAIN eval_mesh.groups[v]}
        order == Ascending(members)
    IN  [k \in 1 .. Len(order) |->
            <<order[k], eval_mesh.groups[order[k]][bone_group]>>]

\* the vertices appended to unweighted_vertices: once per bone group
UnweightedVertices ==
    Repeat(Ascending({v \in Verts : HasNoGroups(v)}), Cardinality(boneinfluences))

\* vert_norm: the summed weight of every vertex listed for some bone
VertNorm ==
    [v \in {u \in Verts : DOMAIN eval_mesh.groups[u] \cap boneinfluences # {}} |->
        SumWeights(eval_mesh.groups[v],
                   DOMAIN eval_mesh.groups[v] \cap boneinfluences)]

\* lines 362-391 and select_unweighted_vertices (638-660)
CollectWeights ==
    /\ pc = "weights"
    /\ vert_list' = [b \in boneinfluences |-> BoneWeightList(b)]
    /\ vert_norm' = VertNorm
    /\ unweighted_vertices' = UnweightedVertices
    /\ bones_done' = {}
    /\ skin_bones' = << >>
    /\ IF Len(UnweightedVertices) > 0
       THEN /\ selected' = {UnweightedVertices[k] :
                               k \in 1 .. Len(UnweightedVertices)}
            /\ Raise("UnweightedVertices")
       ELSE /\ pc' = "bones"
            /\ UNCHANGED <<selected, error>>
    /\ UNCHANGED <<pose, inputs, b_mat_index, blocks, lists, faces, bulk, n_polys, poly,
                   f_index, corner_log>>

\* the weight written for a vertex of weight raw and normalisation sum norm
Normalised(raw, norm) == [num |-> raw, den |-> norm]

\* a weight written to the first welded copy of the vertex alone
WrittenToFirst(v) ==
    IF Truthy(vertex_map[v[1]]) /\ vert_norm[v[1]] # 0
    THEN {vertex_map[v[1]][1]}
    ELSE {}

\* the welded vertices a (vertex, weight) pair of a bone writes to
WrittenTo(v) ==
    IF Truthy(vertex_map[v[1]]) /\ vert_norm[v[1]] # 0
    THEN {vertex_map[v[1]][k] : k \in 1 .. Len(vertex_map[v[1]])}
    ELSE {}

\* vert_weights of one bone (lines 396-408)
VertWeights(b_bone_name) ==
    LET vl == vert_list[b_bone_name]
        written == UNION {WrittenTo(vl[k]) : k \in 1 .. Len(vl)}
    IN  [vert_index \in written |->
            LET k == CHOOSE l \in 1 .. Len(vl) : vert_index \in WrittenTo(vl[l])
            IN  Normalised(vl[k][2], vert_norm[vl[k][1]])]

\* a bone loop that adds every bone
InfluencesAlways(vert_weights) == TRUE

\* line 410: if vert_weights
Influences(vert_weights) == DOMAIN vert_weights # {}

\* lines 394-413: one bone of the bone loop (a set is iterated in no
\* particular order)
AddBone ==
    /\ pc = "bones"
    /\ \E b_bone_name \in boneinfluences \ bones_done :
         LET vert_weights == VertWeights(b_bone_name)
         IN  /\ bones_done' = bones_done \cup {b_bone_name}
             /\ IF ~Influences(vert_weights)
                THEN UNCHANGED <<skin_bones, geoms, pc, error>>
                ELSE IF b_bone_name \notin nif_nodes
                THEN /\ Raise("BoneNotFound")
                     /\ UNCHANGED <<skin_bones, geoms>>
                ELSE /\ skin_bones' =
                          [b \in DOMAIN skin_bones \cup {b_bone_name} |->
                              IF b = b_bone_name THEN vert_weights
                              ELSE skin_bones[b]]
                     /\ geoms' = [geoms EXCEPT ![b_mat_index + 1] =
                                     [@ EXCEPT !.bones = @ \cup {b_bone_name}]]
                     /\ UNCHANGED <<pc, error>>
    /\ UNCHANGED <<pose, inputs, b_mat_index, block_store, children, lists, faces,
                   bulk, n_polys, poly, f_index, corner_log, vert_list, vert_norm,
                   unweighted_vertices, selected>>

\* what update_bind_position meets when line 419 calls it on a skin of n
\* bones: every transform has an inverse, the geometry transform has none,
\* or the bind transform of one bone is the first without.  Each of these
\* bones was found by get_bone_block among the blocks of block_to_obj and is
\* named after a bone of the armature (lines 354, 412), so that the lookups
\* of lines 544 and 545 succeed
BindInputs(n) ==
    LET all_ok == [k \in 1 .. n |-> "ok"]
        met == [pose_in EXCEPT !.is_skin = TRUE, !.geom_singular = FALSE,
                               !.bones = all_ok]
    IN  {met, [met EXCEPT !.geom_singular = TRUE]}
          \cup {[met EXCEPT !.bones = [all_ok EXCEPT ![k] = "singular"]] :
                  k \in 1 .. n}

\* the bones of a bone list before the first whose outcome is not "ok"
BonesBound(bones) ==
    Cardinality({k \in 1 .. Len(bones) :
                   \A l \in 1 .. k : bones[l] = "ok"})

\* lines 414-422: the bone loop is over (its bones are on n_geom already);
\* update_bind_position (lines 515-553) and update_skin_center_radius.
\* A transform without inverse raises ZeroDivisionError: at line 531 before
\* pose_position is touched, at line 549 after pose_bone.matrix was read
\* and with pose_position left at 'POSE'
UpdateBindPosition ==
    /\ pc = "bones"
    /\ bones_done = boneinfluences
    /\ \E met \in BindInputs(Cardinality(geoms[b_mat_index + 1].bones)) :
         LET bound == BonesBound(met.bones)
             completes == ~met.geom_singular /\ bound = Len(met.bones)
             reads == IF met.geom_singular THEN 0
                      ELSE IF completes THEN bound ELSE bound + 1
         IN  /\ pose_in' = met
             /\ entry_position' = pose_position
             /\ old_position' = IF met.geom_singular THEN old_position
                                ELSE pose_position
             /\ pose_position' = IF met.geom_singular \/ completes
                                 THEN pose_position ELSE "POSE"
             /\ sampled' = sampled \o [k \in 1 .. reads |-> "POSE"]
             /\ bone_i' = IF met.geom_singular THEN 0 ELSE bound
             /\ IF completes
                THEN /\ geoms' = [geoms EXCEPT ![b_mat_index + 1] =
                                     [@ EXCEPT !.bind_position = TRUE]]
                     /\ pc' = "partition"
                     /\ pose_pc' = "bind_returned"
                     /\ UNCHANGED error
                ELSE /\ Raise("PY_ZeroDivisionError")
                     /\ PoseRaise
                     /\ UNCHANGED geoms
    /\ UNCHANGED <<inputs, b_mat_index, block_store, children, lists, faces, bulk,
                   n_polys, poly, f_index, corner_log, skin>>

\* line 476: a skin partition is made from version 0x04020100 on, when
\* asked for
MakesSkinPartition == version >= SkinPartitionVersion /\ skin_partition

\* line 424: export_skin_partition (lines 473-513)
ExportSkinPartition ==
    /\ pc = "partition"
    /\ geoms' = [geoms EXCEPT ![b_mat_index + 1] =
                    [@ EXCEPT !.partitioned = MakesSkinPartition]]
    /\ pc' = "finish"
    /\ UNCHANGED <<pose, inputs, error, b_mat_index, block_store, children, lists,
                   faces, bulk, n_polys, poly, f_index, corner_log, skin>>

\* lines 426-431: the tail of one iteration
FinishMaterial ==
    /\ pc = "finish"
    /\ geoms' = [geoms EXCEPT ![b_mat_index + 1] = [@ EXCEPT !.finished = TRUE]]
    /\ pc' = "next"
    /\ UNCHANGED <<pose, inputs, error, b_mat_index, block_store, children, lists,
                   faces, bulk, n_polys, poly, f_index, corner_log, skin>>

\* line 116: the next material, or line 432
NextMaterial ==
    /\ pc = "next"
    /\ IF b_mat_index + 1 < NumMaterials
       THEN /\ b_mat_index' = b_mat_index + 1
            /\ pc' = "material"
       ELSE /\ pc' = "done"
            /\ UNCHANGED b_mat_index
    /\ UNCHANGED <<pose, inputs, error, blocks, lists, faces, bulk, n_polys, poly,
                   f_index, corner_log, skin>>

Next ==
    \/ BeginMaterial
    \/ BeginMaterialNoParent
    \/ BulkPolygons
    \/ BeginPolygon
    \/ Corner
    \/ FanPolygon
    \/ EndPolygons
    \/ SetGeometry
    \/ CreateSkinInstance
    \/ CollectWeights
    \/ AddBone
    \/ UpdateBindPosition
    \/ ExportSkinPartition
    \/ FinishMaterial
    \/ NextMaterial

Spec == Init /\ [][Next]_vars

\* --------------------------------------------------------- pose_position
\* get_triangulated_mesh (lines 743-760) and then update_bind_position
\* (lines 515-553), each on whatever object, geometry and armature it is
\* called with, followed on the pose_position of that armature alone; the
\* export itself is not followed
InitPose ==
    /\ ExportInit({CHOOSE inp \in SkinInputs : inp[1].groups = WeightedGroups})
    /\ pose_in \in PoseInputs
    /\ pose_pc = "triangulate"
    /\ pose_position \in PosePositions
    /\ old_position = "unset"
    /\ entry_position = pose_position
    /\ bone_i = 0
    /\ sampled = << >>

\* lines 743-760: get_triangulated_mesh
GetTriangulatedMesh ==
    /\ pose_pc = "triangulate"
    /\ entry_position' = pose_position
    /\ old_position' = IF pose_in.armature THEN pose_position ELSE old_position
    /\ IF pose_in.eval_fails
       THEN /\ pose_position' = IF pose_in.armature THEN "REST"
                                 ELSE pose_position
            /\ PoseRaise
       ELSE /\ pose_position' = IF pose_in.armature THEN old_position'
                                 ELSE pose_position
            /\ pose_pc' = "triangulated"
    /\ UNCHANGED <<export, pose_in, bone_i, sampled>>

\* lines 521-540: update_bind_position up to the bone loop; the armature is
\* b_obj.parent, whatever find_armature() found
UpdateBindEnter ==
    /\ pose_pc = "triangulated"
    /\ entry_position' = pose_position
    /\ IF ~pose_in.is_skin
       THEN /\ pose_pc' = "bind_returned"
            /\ UNCHANGED <<pose_position, old_position>>
       ELSE IF pose_in.geom_singular
       THEN /\ PoseRaise
            /\ UNCHANGED <<pose_position, old_position>>
       ELSE /\ old_position' = pose_position
            /\ pose_position' = "POSE"
            /\ pose_pc' = "bind_bones"
    /\ bone_i' = 0
    /\ UNCHANGED <<export, pose_in, sampled>>

\* pose_bone.matrix is read at line 546, after the two lookups
ReadsMatrix(outcome) == outcome \in {"ok", "singular"}

\* lines 543-549: one bone of skininst.bones
BindBone ==
    /\ pose_pc = "bind_bones"
    /\ bone_i < Len(pose_in.bones)
    /\ LET outcome == pose_in.bones[bone_i + 1]
       IN  /\ sampled' = IF ReadsMatrix(outcome)
                         THEN Append(sampled, pose_position)
                         ELSE sampled
           /\ IF outcome = "ok"
              THEN /\ bone_i' = bone_i + 1
                   /\ UNCHANGED pose_pc
              ELSE /\ PoseRaise
                   /\ UNCHANGED bone_i
    /\ UNCHANGED <<export, pose_in, pose_position, old_position, entry_position>>

\* line 553: after the bone loop
UpdateBindRestore ==
    /\ pose_pc = "bind_bones"
    /\ bone_i = Len(pose_in.bones)
    /\ pose_position' = old_position
    /\ pose_pc' = "bind_returned"
    /\ UNCHANGED <<export, pose_in, old_position, entry_position, bone_i, sampled>>

NextPose ==
    \/ GetTriangulatedMesh
    \/ UpdateBindEnter
    \/ BindBone
    \/ UpdateBindRestore

SpecPose == InitPose /\ [][NextPose]_vars

\* ------------------------------------------------------------------ claims
\* all uv, normal and colour components of two quads are within epsilon
WithinEpsilon(q1, q2) ==
    /\ \A l \in 1 .. Len(q1[2]) : \A i \in 1 .. 2 :
          Abs(q1[2][l][i] - q2[2][l][i]) <= Epsilon
    /\ \A i \in 1 .. Len(q1[3]) : Abs(q1[3][i] - q2[3][i]) <= Epsilon
    /\ \A i \in 1 .. Len(q1[4]) : Abs(q1[4][i] - q2[4][i]) <= Epsilon

\* the welded vertices registered for source vertex v
Welded(v) == {vertex_map[v][k] : k \in 1 .. Len(vertex_map[v])}

\* corners a and b of the log are within epsilon of the same welded vertices
\* of their source vertex
SameCandidates(a, b) ==
    \A j \in Welded(corner_log[a][1]) :
        WithinEpsilon(corner_log[a][2], VertQuad(j))
            <=> WithinEpsilon(corner_log[b][2], VertQuad(j))

\* C1 as stated: any two face corners of one material with the same source
\* vertex whose uv, normal and colour are within epsilon of each other have
\* the same welded index, whatever earlier corners there were.
C1_AnyCloseCornersWeld ==
    \A a, b \in 1 .. Len(corner_log) :
        (corner_log[a][1] = corner_log[b][1]
            /\ WithinEpsilon(corner_log[a][2], corner_log[b][2]))
        => corner_log[a][3] = corner_log[b][3]

\* C1 amended: a face corner and an earlier one with the same source vertex
\* that are within epsilon of each other have the same welded index provided
\* every welded vertex registered for that source vertex once the later
\* corner is traversed is within epsilon of both of them or of neither.  (The
\* later corner is the newest of the log in the states that follow its
\* traversal, which are all the states the pair is judged in.)
C1_CloseCornersWeld ==
    \A a \in 1 .. (Len(corner_log) - 1) :
        LET b == Len(corner_log)
        IN  (corner_log[a][1] = corner_log[b][1]
                /\ WithinEpsilon(corner_log[a][2], corner_log[b][2])
                /\ SameCandidates(a, b))
            => corner_log[a][3] = corner_log[b][3]

\* two different corners of a source vertex with two welded copies were
\* welded into one
C1_Witness ==
    \E a \in 1 .. (Len(corner_log) - 1) :
        LET b == Len(corner_log)
        IN  /\ corner_log[a][1] = corner_log[b][1]
            /\ corner_log[a][2] # corner_log[b][2]
            /\ WithinEpsilon(corner_log[a][2], corner_log[b][2])
            /\ SameCandidates(a, b)
            /\ corner_log[a][3] = corner_log[b][3]
            /\ Len(vertex_map[corner_log[a][1]]) >= 2

\* C2: at every step, any two distinct welded vertices registered under the
\* same source vertex are new against each other by is_new_face_corner_data.
C2_WeldedDiffer ==
    \A v \in Verts : \A i, j \in Welded(v) :
        i # j => is_new_face_corner_data(VertQuad(i), VertQuad(j))

\* a source vertex has two welded copies and one of its corners reused one
C2_Witness ==
    \E v \in Verts :
        /\ Len(vertex_map[v]) >= 2
        /\ Cardinality({a \in 1 .. Len(corner_log) : corner_log[a][1] = v})
              > Len(vertex_map[v])

\* C3: the welded vertex count of a material never exceeds 65535 unless the
\* 'Too many vertices' error has been raised.
C3_AtMost65535Vertices ==
    NumWelded > 65535 => error = "TooManyVertices"

\* positions of the polygon loop, and positions after the triangle check
InPolygonLoop == pc \in {"material", "bulk", "polygons", "corner", "fan"}
PastTriangleCheck ==
    pc \in {"geometry", "skin", "weights", "bones", "partition", "finish"}

\* C4 as stated: geometry, skin and partitioner are reached with at most
\* 65535 triangles; a material whose polygons fan into 65536 or more
\* triangles ends with the 'Too many polygons' error; one with exactly 65535
\* does not.
C4_TooManyPolygonsRaised ==
    /\ PastTriangleCheck => NumTriangles <= 65535
    /\ (~InPolygonLoop /\ NumTriangles >= 65536) => error = "TooManyPolygons"
    /\ NumTriangles = 65535 => error # "TooManyPolygons"

\* C4 amended: as stated, except that a material with 65536 or more
\* triangles ends with the 'Too many polygons' error unless the corner loop
\* raised 'Too many vertices' or a polygon without body part makes the
\* unassigned body part error come first.
C4_TriangleLimit ==
    /\ PastTriangleCheck => NumTriangles <= 65535
    /\ (~InPolygonLoop /\ NumTriangles >= 65536
            /\ error # "TooManyVertices" /\ polygons_without_bodypart = << >>)
        => error = "TooManyPolygons"
    /\ error = "TooManyPolygons" => NumTriangles >= 65536

\* the 65536th triangle of a material has raised 'Too many polygons'
C4_Witness ==
    pc = "raised" /\ error = "TooManyPolygons" /\ NumTriangles = 65536

\* the sum of the weights w (pairs num / den) is one
RECURSIVE SumNum(_, _)
SumNum(ws, d) ==
    IF ws = << >> THEN 0
    ELSE Head(ws).num * (d \div Head(ws).den) + SumNum(Tail(ws), d)

RECURSIVE DenProduct(_)
DenProduct(ws) == IF ws = << >> THEN 1 ELSE Head(ws).den * DenProduct(Tail(ws))

SumsToOne(ws) ==
    /\ \A k \in 1 .. Len(ws) : ws[k].den # 0
    /\ SumNum(ws, DenProduct(ws)) = DenProduct(ws)

\* the weights passed to add_bone for welded vertex w, over all bones
RECURSIVE WeightsOf(_, _)
WeightsOf(w, bones) ==
    IF bones = {} THEN << >>
    ELSE LET b == CHOOSE x \in bones : TRUE
         IN  (IF w \in DOMAIN skin_bones[b] THEN <<skin_bones[b][w]>> ELSE << >>)
                 \o WeightsOf(w, bones \ {b})

\* the source vertices in at least one influencing bone group
Influenced == {v \in Verts : DOMAIN eval_mesh.groups[v] \cap boneinfluences # {}}

\* C5: once the bones are added, the weights passed to add_bone for every
\* welded copy of every source vertex that is in an influencing bone group
\* sum to one over all bones.
C5_WeightsSumToOne ==
    pc = "partition" =>
        \A v \in Influenced : \A w \in Welded(v) :
            SumsToOne(WeightsOf(w, DOMAIN skin_bones))

\* C6: for every bone passed to add_bone and every source vertex, either all
\* welded copies of the vertex carry the weight raw / norm for that bone or
\* none of them carries a weight for it.
C6_CopiesShareWeights ==
    pc \in {"bones", "partition"} =>
        \A b \in DOMAIN skin_bones : \A v \in Verts :
            \/ \A w \in Welded(v) : w \notin DOMAIN skin_bones[b]
            \/ /\ b \in DOMAIN eval_mesh.groups[v]
               /\ \A w \in Welded(v) :
                    /\ w \in DOMAIN skin_bones[b]
                    /\ skin_bones[b][w] =
                          [num |-> eval_mesh.groups[v][b],
                           den |-> SumWeights(eval_mesh.groups[v],
                                      DOMAIN eval_mesh.groups[v] \cap boneinfluences)]

\* a bone was added with weights on two welded copies of one source vertex
C6_Witness ==
    /\ pc = "partition"
    /\ \E b \in DOMAIN skin_bones : \E v \in Verts :
          /\ Len(vertex_map[v]) >= 2
          /\ \A w \in Welded(v) : w \in DOMAIN skin_bones[b]

ScaleSum == b_obj.scale[1] + b_obj.scale[2] + b_obj.scale[3]

\* the triangles the last traversed polygon added
LastTriangles ==
    SubSeq(triangles, Len(triangles) - (Len(f_index) - 2) + 1, Len(triangles))

\* C7 as stated: a polygon with welded corners f adds the triangles
\* (f[0], f[2+i], f[1+i]) exactly when the scale sum is negative and
\* (f[0], f[1+i], f[2+i]) otherwise.
C7_FlippedWhenNegative ==
    (pc = "polygons" /\ Len(f_index) >= 3) =>
        \A i \in 1 .. (Len(f_index) - 2) :
            LastTriangles[i] =
                IF ScaleSum < 0
                THEN <<f_index[1], f_index[2 + i], f_index[1 + i]>>
                ELSE <<f_index[1], f_index[1 + i], f_index[2 + i]>>

\* C7 amended: a polygon with welded corners f adds the triangles
\* (f[0], f[1+i], f[2+i]) when the scale sum is positive and
\* (f[0], f[2+i], f[1+i]) exactly when it is negative or zero.
C7_FlippedUnlessPositive ==
    (pc = "polygons" /\ Len(f_index) >= 3) =>
        \A i \in 1 .. (Len(f_index) - 2) :
            LastTriangles[i] =
                IF ScaleSum <= 0
                THEN <<f_index[1], f_index[2 + i], f_index[1 + i]>>
                ELSE <<f_index[1], f_index[1 + i], f_index[2 + i]>>

\* the quad [0, 1, 2, 3] of an object of negative scale has been fanned
C7_Witness ==
    /\ pc = "polygons"
    /\ ScaleSum < 0
    /\ f_index = <<0, 1, 2, 3>>
    /\ triangles = << <<0, 2, 1>>, <<0, 3, 2>> >>

\* the source vertices in no vertex group that is a bone
Uninfluenced == Verts \ Influenced

\* C8: with an armature parent and a vertex group matching a bone, a mesh
\* with a vertex in no bone vertex group does not get past the weight
\* collection, and the unweighted vertices error selects exactly the
\* vertices in no bone vertex group.
C8_UninfluencedRejected ==
    /\ pc \in {"bones", "partition"} => Uninfluenced = {}
    /\ error = "UnweightedVertices" => selected = Uninfluenced

\* C9: the skin of a material is never completed while a source vertex has a
\* normalisation sum of zero.
C9_ZeroNormRejected ==
    pc = "partition" => \A v \in DOMAIN vert_norm : vert_norm[v] # 0

\* C10: when a capacity error is raised, no geometry block is in the block
\* store or among the children of n_parent and no block has data set.
C10_NothingWrittenOnCapacityError ==
    error \in {"TooManyVertices", "TooManyPolygons"} =>
        /\ block_store = << >>
        /\ children = << >>
        /\ \A g \in 1 .. Len(geoms) : ~geoms[g].has_data

\* a function that sets pose_position has been left
PoseExit == pose_pc \in {"triangulated", "bind_returned", "raised"}

\* C11: on every exit of get_triangulated_mesh and of update_bind_position,
\* also by an exception, pose_position is what it was when the function was
\* entered.
C11_PoseRestored == PoseExit => pose_position = entry_position

\* C12: whenever update_bind_position uses pose_bone.matrix, pose_position
\* is 'REST'.
C12_SampledAtRest == \A k \in 1 .. Len(sampled) : sampled[k] = "REST"

\* C13: the skin of a material is linked and continued only when an exported
\* node has the skeleton root name; when the skeleton root error is raised no
\* node has that name, although others may exist, and the material's n_geom
\* has no skin instance, no bone, no bind position and no partition.
C13_SkeletonRootRequired ==
    /\ \A g \in 1 .. Len(geoms) : geoms[g].has_skin => n_root_name \in nif_nodes
    /\ pc \in {"weights", "bones", "partition"} => n_root_name \in nif_nodes
    /\ error = "SkeletonRootNotFound" =>
          /\ n_root_name \notin nif_nodes
          /\ pc = "raised"
          /\ skin_bones = << >>
          /\ LET g == geoms[b_mat_index + 1]
             IN  ~g.has_skin /\ g.bones = {} /\ ~g.bind_position /\ ~g.partitioned

\* the skeleton root error was raised for a skeleton_root property naming no
\* node, while the armature and its bones were exported
C13_Witness ==
    /\ error = "SkeletonRootNotFound"
    /\ b_obj.skeleton_root # ""
    /\ ArmatureName \in nif_nodes

\* the retained polygons of the material traversed so far (poly.index), and
\* those of them without body part
Retained == {corner_log[a][5] : a \in 1 .. Len(corner_log)}
RetainedUnassigned ==
    {corner_log[a][5] : a \in {c \in 1 .. Len(corner_log) : corner_log[c][6] < 0}}
Collected ==
    {polygons_without_bodypart[k] : k \in 1 .. Len(polygons_without_bodypart)}

\* the polygon loop of the material has ended
PolygonLoopEnded ==
    \/ pc \in {"geometry", "skin", "weights", "bones", "partition", "finish"}
    \/ error \in {"UnassignedBodyPart", "TooManyPolygons"}

\* C14: the unassigned body part error is raised only by a FALLOUT_3 or
\* SKYRIM export with face maps, when the polygon loop of the material has
\* ended and before its geometry data is set; polygons_without_bodypart then
\* holds exactly the retained polygons without body part; and the polygon
\* loop never ends without the error while such a polygon was retained.
C14_UnassignedCollected ==
    /\ error = "UnassignedBodyPart" =>
          /\ UsesBodyParts
          /\ pc = "raised"
          /\ f_index # << >> /\ \A i \in 1 .. Len(f_index) : f_index[i] # -1
          /\ Collected = RetainedUnassigned
          /\ Collected # {}
          /\ ~geoms[b_mat_index + 1].has_data
    /\ (UsesBodyParts /\ PolygonLoopEnded /\ RetainedUnassigned # {})
          => error = "UnassignedBodyPart"
    /\ (UsesBodyParts /\ pc = "polygons") => Collected = RetainedUnassigned

\* the error was raised with two polygons collected, after a polygon with a
\* body part
C14_Witness ==
    /\ error = "UnassignedBodyPart"
    /\ Cardinality(Collected) >= 2
    /\ Retained # RetainedUnassigned

\* C15: whenever tangents are in use, tangents and bitangent_signs have one
\* entry per welded vertex, and add_defined_tangents never raises the tangent
\* count error.
C15_TangentPerVertex ==
    /\ use_tangents =>
          /\ NumTangents = bulk_verts + Len(vertex_positions)
          /\ NumBitangents = bulk_verts + Len(vertex_positions)
    /\ error # "TangentCountMismatch"

\* tangents were set on a material with a source vertex welded twice and a
\* corner that reused a welded vertex
C15_Witness ==
    /\ Len(geoms) > b_mat_index
    /\ geoms[b_mat_index + 1].has_tangents
    /\ Len(tangents) > 3
    /\ Len(corner_log) > Len(tangents)

\* the candidates of vertex_map[v], by position, the quad q is not new against
Matching(q, v) ==
    {k \in 1 .. Len(vertex_map[v]) :
        ~is_new_face_corner_data(q, VertQuad(vertex_map[v][k]))}

\* C16: a face corner that is traversed without error takes the index of the
\* first candidate of its source vertex, in insertion order, it is not new
\* against, and then nothing is appended; if there is none, it takes
\* len(vertquad_list), its quad is appended to vertquad_list and the index is
\* registered as the last candidate of the source vertex.
C16_FirstMatchOrAppend ==
    [][(pc = "corner" /\ error' = "none") =>
        LET e == corner_log'[Len(corner_log')]
            v == e[1]
            q == e[2]
        IN  /\ Len(corner_log') = Len(corner_log) + 1
            /\ IF Matching(q, v) # {}
               THEN /\ \E k \in Matching(q, v) :
                         /\ e[3] = vertex_map[v][k]
                         /\ \A l \in Matching(q, v) : k <= l
                    /\ vertquad_list' = vertquad_list
                    /\ vertex_map' = vertex_map
               ELSE /\ e[3] = bulk_verts + Len(vertquad_list)
                    /\ vertquad_list' = Append(vertquad_list, q)
                    /\ vertex_map' =
                          [vertex_map EXCEPT ![v] = Append(@, e[3])]]_vars

\* the newest corner is within epsilon of two candidates of its source
\* vertex and has the index of the first of them
C16_Witness ==
    /\ corner_log # << >>
    /\ LET e == corner_log[Len(corner_log)]
       IN  /\ Cardinality(Matching(e[2], e[1])) >= 2
           /\ e[3] = vertex_map[e[1]][1]

\* the corners traversed of the retained polygon of index p
CornersOf(p) ==
    Cardinality({a \in 1 .. Len(corner_log) : corner_log[a][5] = p})

RECURSIVE FanSum(_)
FanSum(P) ==
    IF P = {} THEN 0
    ELSE LET p == CHOOSE x \in P : TRUE
         IN  (CornersOf(p) - 2) + FanSum(P \ {p})

\* the polygon whose corners and triangles enter the material group has
\* three or more corners and, when the mesh has material slots, the material
\* of the group
OwnPolygonRetained ==
    pc \in {"corner", "fan"} =>
        /\ Len(poly.vertices) >= 3
        /\ eval_mesh.materials > 0 => poly.material_index = b_mat_index

\* welded vertices are at most the corners of the retained polygons, and
\* after each polygon the triangles number the sum of N - 2 over the
\* retained polygons with N corners
RetainedCounts ==
    /\ Len(vertquad_list) <= Len(corner_log)
    /\ pc = "polygons" => Len(triangles) = FanSum(Retained)

\* C17: polygons of another material or with fewer than three corners
\* contribute no welded vertex and no triangle to a material group; its
\* welded vertices are at most the corners of the retained polygons and its
\* triangles number the sum of N - 2 over them.
C17_OnlyRetainedContribute == OwnPolygonRetained /\ RetainedCounts

\* the weighted source vertices of a bone that are mapped to a welded vertex
\* of the material group and have a non-zero normalisation sum
Influencing(b) ==
    {v \in Verts : /\ b \in DOMAIN eval_mesh.groups[v]
                   /\ vertex_map[v] # << >>
                   /\ vert_norm[v] # 0}

InOrPastBoneLoop == pc \in {"bones", "partition", "finish"} /\ error = "none"

\* C18: a bone the bone loop has handled is a bone of the skin exactly when
\* one of its weighted source vertices is mapped to a welded vertex of the
\* material group and has a non-zero normalisation sum; no bone of the skin
\* has an empty set of remapped weights.
C18_BoneAddedIffInfluencing ==
    InOrPastBoneLoop =>
        /\ \A b \in bones_done :
               b \in geoms[b_mat_index + 1].bones <=> Influencing(b) # {}
        /\ geoms[b_mat_index + 1].bones = DOMAIN skin_bones
        /\ \A b \in DOMAIN skin_bones : DOMAIN skin_bones[b] # {}

\* the bone loop is over: one bone was added, one with a weighted vertex in
\* no triangle was dropped
C18_Witness ==
    /\ pc = "partition"
    /\ DOMAIN skin_bones # {}
    /\ \E b \in bones_done \ DOMAIN skin_bones :
          \E v \in Verts : /\ b \in DOMAIN eval_mesh.groups[v]
                           /\ vert_norm[v] # 0
                           /\ vertex_map[v] = << >>

\* the stage of its material group a position of export_tri_shapes is in:
\* the head of the iteration, deduplication and triangulation, geometry
\* data, weights and bones (the bind position is updated on leaving them),
\* skin partition, the tail of the iteration
StageOf(at) ==
    CASE at = "material" -> 0
      [] at \in {"bulk", "polygons", "corner", "fan"} -> 1
      [] at = "geometry" -> 2
      [] at \in {"skin", "weights", "bones"} -> 3
      [] at = "partition" -> 4
      [] at = "finish" -> 5
      [] OTHER -> 6

\* what was done to the block of a material group was done in the order of
\* the stages, and every group before the last one begun was finished or
\* was skipped as empty
StagesInOrder ==
    /\ Len(geoms) = (IF pc = "material" THEN b_mat_index
                     ELSE b_mat_index + 1)
    /\ \A j \in 1 .. Len(geoms) :
          LET g == geoms[j]
          IN  /\ g.has_skin => g.has_data
              /\ g.bind_position => g.has_skin
              /\ g.bones # {} => g.has_skin
              /\ g.partitioned => g.bind_position
              /\ g.finished =>
                    /\ g.has_data
                    /\ g.has_skin => g.bind_position
                    /\ (g.has_skin /\ MakesSkinPartition) => g.partitioned
              /\ j < Len(geoms) => g.finished \/ ~g.has_data
    /\ StageOf(pc) = 1 => ~geoms[b_mat_index + 1].has_data
    /\ pc \in {"skin", "weights", "bones"} =>
          ~geoms[b_mat_index + 1].bind_position
    /\ pc \in {"skin", "weights"} => geoms[b_mat_index + 1].bones = {}
    /\ pc = "partition" => geoms[b_mat_index + 1].bind_position
                               /\ ~geoms[b_mat_index + 1].partitioned

\* the welded indices of the triangles and of vertex_map were produced by
\* a corner of the material group under way, those of vertex_map[v] by a
\* corner of source vertex v
OwnIndices ==
    /\ \A t \in 1 .. Len(triangles) : \A c \in 1 .. 3 :
          \E a \in 1 .. Len(corner_log) : corner_log[a][3] = triangles[t][c]
    /\ \A v \in Verts : \A k \in 1 .. Len(vertex_map[v]) :
          \E a \in 1 .. Len(corner_log) :
             /\ corner_log[a][1] = v
             /\ corner_log[a][3] = vertex_map[v][k]
             /\ vertex_map[v][k] < NumWelded

\* a step stays in its material group without going back to a stage
\* before, or is the step from the end of one group to the head of the next
StageStep ==
    /\ b_mat_index' = b_mat_index /\ pc' # "raised"
          => StageOf(pc') >= StageOf(pc)
    /\ b_mat_index' # b_mat_index
          => /\ pc = "next" /\ pc' = "material"
             /\ b_mat_index' = b_mat_index + 1
    /\ pc = "material"
          => /\ vertquad_list' = << >>
             /\ vertex_map' = [v \in Verts |-> None]
             /\ triangles' = << >>
             /\ bodypartfacemap' = << >>
             /\ bulk_verts' = 0 /\ bulk_tris' = 0

\* C19: the stages of a material group occur in the order deduplication and
\* triangulation, geometry data, weights and bones, bind position, skin
\* partition; the next group starts after the last stage of the group
\* before it, with empty vertquad_list, vertex_map, triangles and
\* bodypartfacemap, and its welded indices are those of its own corners.
C19_StagesPerGroup == [](StagesInOrder /\ OwnIndices) /\ [][StageStep]_vars

\* the second material group of a skinned mesh has welded vertices of its
\* own and was partitioned after the first was partitioned and finished
C19_Witness ==
    /\ b_mat_index = 1
    /\ pc = "finish"
    /\ geoms[1].partitioned /\ geoms[1].finished
    /\ geoms[2].partitioned
    /\ Len(vertquad_list) > 0 /\ Len(triangles) > 0

\* welded index j is at one place of vertex_map: under one source vertex,
\* once
AtOnePlace(j) ==
    \E v \in Verts :
       /\ \E k \in 1 .. Len(vertex_map[v]) :
             /\ vertex_map[v][k] = j
             /\ \A l \in 1 .. Len(vertex_map[v]) :
                   vertex_map[v][l] = j => l = k
       /\ \A u \in Verts \ {v} : j \notin Welded(u)

\* the corners traversed that did not end the export
CornersDone ==
    {a \in 1 .. Len(corner_log) : ~TooManyVertices(corner_log[a][3])}

\* C20: after every step of the corner loop, every index of a triangle is
\* smaller than the number of welded vertices and is listed in vertex_map
\* under the source vertex of the corner it was produced from, every welded
\* index is in vertex_map exactly once, and vertex_map[v] is not empty for a
\* source vertex v of a retained polygon.
C20_TrianglesAndMapAgree ==
    /\ \A t \in 1 .. Len(triangles) : \A c \in 1 .. 3 :
          triangles[t][c] >= bulk_verts /\ triangles[t][c] < NumWelded
    /\ (pc = "polygons" /\ Len(f_index) >= 3) =>
          \A i \in 1 .. (Len(f_index) - 2) : \A c \in 1 .. 3 :
             \E k \in 1 .. Len(f_index) :
                /\ LastTriangles[i][c] = f_index[k]
                /\ f_index[k] \in Welded(poly.vertices[k])
    /\ \A a \in CornersDone :
          /\ corner_log[a][3] \in Welded(corner_log[a][1])
          /\ vertex_map[corner_log[a][1]] # << >>
    /\ \A j \in bulk_verts .. (NumWelded - 1) : AtOnePlace(j)
    /\ \A v \in Verts : \A k \in 1 .. Len(vertex_map[v]) :
          vertex_map[v][k] >= bulk_verts /\ vertex_map[v][k] < NumWelded

\* a source vertex has two welded vertices and two polygons were fanned
C20_Witness ==
    /\ pc = "polygons"
    /\ Len(triangles) >= 2
    /\ \E v \in Verts : Len(vertex_map[v]) >= 2
    /\ \E t \in 1 .. Len(triangles) : \E c \in 1 .. 3 :
          \E v \in Verts : Len(vertex_map[v]) >= 2
                            /\ triangles[t][c] = vertex_map[v][2]

\* polygon_parts[poly.index] of the retained polygon of index p
PartOf(p) ==
    corner_log[CHOOSE a \in 1 .. Len(corner_log) : corner_log[a][5] = p][6]

\* the body part of each triangle of the retained polygons ps, in their
\* order: one per triangle of the polygon, 0 when body parts are not in use
RECURSIVE TagsOf(_)
TagsOf(ps) ==
    IF ps = << >> THEN << >>
    ELSE Repeat(<<IF UsesBodyParts THEN PartOf(Head(ps)) ELSE 0>>,
                CornersOf(Head(ps)) - 2) \o TagsOf(Tail(ps))

\* C21: when export_skin_partition is called, bodypartfacemap has one entry
\* per triangle, entry i being the body part of the polygon that produced
\* triangle i (0 when body parts are not in use); a triangle of a polygon
\* without body part has no tag, and a material group whose tags and
\* triangles differ in number gets no further than its polygon loop.
C21_TagPerTriangle ==
    /\ Len(triangles) =
          Len(bodypartfacemap) + Len(polygons_without_bodypart)
    /\ pc = "partition" =>
          /\ NumTags = NumTriangles
          /\ Len(bodypartfacemap) = Len(triangles)
          /\ bodypartfacemap = TagsOf(Ascending(Retained))
    /\ Len(bodypartfacemap) # Len(triangles) =>
          pc \in {"polygons", "corner", "fan", "raised"}

\* export_skin_partition is called with the tags of a quad and of a
\* triangle of another body part
C21_Witness ==
    /\ pc = "partition"
    /\ UsesBodyParts
    /\ \E p \in Retained : CornersOf(p) = 4
    /\ \E i, j \in 1 .. Len(bodypartfacemap) :
          bodypartfacemap[i] # bodypartfacemap[j]

====
